---- MODULE Spec2Model ----
(***************************************************************************)
(* The physical page-frame allocator (PMM) of kernel/kernel/vm/pmm.cpp:    *)
(* the priority-ordered arena registry, the global arena_lock, the four    *)
(* allocation disciplines and pmm_free, over the per-arena operations of   *)
(* PmmArena (declared in pmm_arena.h).                                     *)
(***************************************************************************)
EXTENDS Integers, Sequences, FiniteSets, TLC

\* ------------------------------------------------------------ constants

PAGE_SIZE_SHIFT == 12
PAGE_SIZE == 2 ^ PAGE_SIZE_SHIFT
\* sizeof(vm_page_t), the stride of an arena's page array
VM_PAGE_STRUCT_SIZE == 8
\* sizeof(PmmArena), taken from the boot allocator before each page array
SIZEOF_PMM_ARENA == 8
\* where the boot allocator starts handing out memory
BOOT_ALLOC_START == 64
PMM_ARENA_FLAG_KMAP == 1
PMM_ALLOC_FLAG_KMAP == 1
NO_ERROR == 0
ERR_NOT_FOUND == -3
NULL == 0
\* vm_page_to_paddr's "not found"
PADDR_NONE == -1
\* where the kernel maps physical memory: kernel address = this + physical address
KERNEL_ASPACE_BASE == 2 ^ 20

\* ------------------------------------------------------------ bounds

\* largest page count a caller asks for
MaxCount == 3
\* longest list handed to pmm_free
MaxList == 2

\* ------------------------------------------------------------ helpers

Range(s) == {s[i] : i \in 1..Len(s)}

Min(a, b) == IF a < b THEN a ELSE b

Max(a, b) == IF a > b THEN a ELSE b

ROUNDDOWN(a, b) == a - (a % b)

\* the sequence s without its elements in S, order kept
RECURSIVE SeqWithout(_, _)
SeqWithout(s, S) ==
    IF s = <<>> THEN <<>>
    ELSE IF Head(s) \in S THEN SeqWithout(Tail(s), S)
         ELSE <<Head(s)>> \o SeqWithout(Tail(s), S)

\* every sequence of distinct elements of S of length at most n
RECURSIVE DistinctSeqs(_, _)
DistinctSeqs(S, n) ==
    IF n = 0 THEN {<<>>}
    ELSE LET shorter == DistinctSeqs(S, n - 1)
             longest == {t \in shorter : Len(t) = n - 1}
         IN shorter \cup UNION {{Append(t, x) : x \in S \ Range(t)} : t \in longest}

\* ------------------------------------------------------------ PmmArena

\* the regions platform code may register: pairwise disjoint, page-aligned,
\* "lo" and "mid" physically adjacent, a hole between "mid" and "hi"
ArenaInfos ==
    { [name |-> "lo", base |-> 1 * PAGE_SIZE, size |-> 3 * PAGE_SIZE,
       flags |-> PMM_ARENA_FLAG_KMAP, priority |-> p] : p \in {1, 5} }
    \cup
    { [name |-> "mid", base |-> 4 * PAGE_SIZE, size |-> 2 * PAGE_SIZE,
       flags |-> 0, priority |-> p] : p \in {1, 3} }
    \cup
    { [name |-> "hi", base |-> 7 * PAGE_SIZE, size |-> 1 * PAGE_SIZE,
       flags |-> PMM_ARENA_FLAG_KMAP, priority |-> p] : p \in {3} }

\* accessors
base(a) == a.info.base

size(a) == a.info.size

flags(a) == a.info.flags

priority(a) == a.info.priority

get_page(a, index) == a.page_array + index * VM_PAGE_STRUCT_SIZE

\* (mutant) the upper bound of the range test is taken inclusive
page_belongs_to_arena_inclusive(a, page) ==
    /\ page >= a.page_array
    /\ page <= a.page_array + (size(a) \div PAGE_SIZE) * VM_PAGE_STRUCT_SIZE

page_belongs_to_arena(a, page) ==
    /\ page >= a.page_array
    /\ page < a.page_array + (size(a) \div PAGE_SIZE) * VM_PAGE_STRUCT_SIZE

page_address_from_arena(a, page) ==
    ((page - a.page_array) \div VM_PAGE_STRUCT_SIZE) * PAGE_SIZE + base(a)

address_in_arena(a, address) ==
    address >= base(a) /\ address <= base(a) + size(a) - 1

\* A memory m is [arena_list, page_state]: the registry and the state field of
\* every vm_page_t of a page array.  A pointer into no page array reads
\* whatever that memory holds: the caller of page_is_free supplies it.
page_is_free(m, page, garbage) ==
    IF page \in DOMAIN m.page_state THEN m.page_state[page] = "FREE"
    ELSE garbage = "FREE"

\* the arena as constructed: no page array yet
NewArena(info) ==
    [info |-> info, page_array |-> NULL, free_count |-> 0, free_list |-> <<>>]

\* BootAllocArray of arena k: the array comes from the boot allocator at
\* address array; every frame is marked free and appended to the free list
BootAllocArray(m, k, array) ==
    LET a == m.arena_list[k]
        page_count == size(a) \div PAGE_SIZE
        pages == [i \in 1..page_count |-> array + (i - 1) * VM_PAGE_STRUCT_SIZE]
    IN [arena_list |-> [m.arena_list EXCEPT ![k] =
                          [a EXCEPT !.page_array = array,
                                    !.free_list = a.free_list \o pages,
                                    !.free_count = a.free_count + page_count]],
        page_state |-> [p \in DOMAIN m.page_state \cup Range(pages) |->
                          IF p \in Range(pages) THEN "FREE" ELSE m.page_state[p]]]

\* removes frame page of arena k from the free list and marks it allocated
TakePage(m, k, page) ==
    LET a == m.arena_list[k]
    IN [arena_list |-> [m.arena_list EXCEPT ![k] =
                          [a EXCEPT !.free_list = SeqWithout(a.free_list, {page}),
                                    !.free_count = a.free_count - 1]],
        page_state |-> [m.page_state EXCEPT ![page] = "ALLOC"]]

\* AllocPage: the head of the free list, and its address
AllocPage(m, k) ==
    LET a == m.arena_list[k]
    IN IF a.free_list = <<>> THEN [m |-> m, page |-> NULL, pa |-> <<>>]
       ELSE [m |-> TakePage(m, k, Head(a.free_list)),
             page |-> Head(a.free_list),
             pa |-> <<page_address_from_arena(a, Head(a.free_list))>>]

\* AllocSpecific: the frame at address pa, if it is free
AllocSpecific(m, k, pa) ==
    LET a == m.arena_list[k]
        index == (pa - base(a)) \div PAGE_SIZE
        page == get_page(a, index)
    IN IF ~address_in_arena(a, pa) THEN [m |-> m, page |-> NULL]
       ELSE IF ~page_is_free(m, page, "ALLOC") THEN [m |-> m, page |-> NULL]
       ELSE [m |-> TakePage(m, k, page), page |-> page]

\* AllocPages: pops the free list until count frames are collected or it is empty
RECURSIVE AllocPages(_, _, _, _)
AllocPages(m, k, count, list) ==
    LET a == m.arena_list[k]
    IN IF count = 0 \/ a.free_list = <<>>
       THEN [m |-> m, allocated |-> 0, list |-> list]
       ELSE LET rest == AllocPages(TakePage(m, k, Head(a.free_list)), k, count - 1,
                                   Append(list, Head(a.free_list)))
            IN [rest EXCEPT !.allocated = rest.allocated + 1]

\* whether frames start .. start+count-1 of arena a lie in it and are all free
RunIsFree(m, a, start, count) ==
    /\ start + count <= size(a) \div PAGE_SIZE
    /\ \A i \in start..(start + count - 1) : page_is_free(m, get_page(a, i), "ALLOC")

\* takes frames start .. start+count-1 of arena k, in ascending order
RECURSIVE TakeRun(_, _, _, _)
TakeRun(m, k, start, count) ==
    IF count = 0 THEN m
    ELSE TakeRun(TakePage(m, k, get_page(m.arena_list[k], start)), k, start + 1, count - 1)

\* AllocContiguous: the first frame index whose address is aligned and that
\* starts count free frames; on success the run is taken and count returned
AllocContiguous(m, k, count, alignment_log2, has_list) ==
    LET a == m.arena_list[k]
        page_count == size(a) \div PAGE_SIZE
        starts == {i \in 0..(page_count - 1) :
                     /\ (base(a) + i * PAGE_SIZE) % (2 ^ alignment_log2) = 0
                     /\ RunIsFree(m, a, i, count)}
        start == CHOOSE i \in starts : \A j \in starts : i <= j
    IN IF starts = {} THEN [m |-> m, count |-> 0, pa |-> <<>>, list |-> <<>>]
       ELSE [m |-> TakeRun(m, k, start, count),
             count |-> count,
             pa |-> <<base(a) + start * PAGE_SIZE>>,
             list |-> IF has_list THEN [i \in 1..count |-> get_page(a, start + i - 1)]
                      ELSE <<>>]

\* FreePage: refuses a frame of another arena (and one that is already
\* free); else puts the frame at the head of the free list
FreePage(m, k, page) ==
    LET a == m.arena_list[k]
    IN IF ~page_belongs_to_arena(a, page) \/ page_is_free(m, page, "ALLOC")
       THEN [m |-> m, status |-> ERR_NOT_FOUND]
       ELSE [m |-> [arena_list |-> [m.arena_list EXCEPT ![k] =
                                      [a EXCEPT !.free_list = <<page>> \o a.free_list,
                                                !.free_count = a.free_count + 1]],
                    page_state |-> [m.page_state EXCEPT ![page] = "FREE"]],
             status |-> NO_ERROR]

\* ------------------------------------------------------------ pmm.cpp

\* flags & bit, for a single-bit mask
HasFlag(f, bit) == (f \div bit) % 2 = 1

\* (mutant) no arena is ever skipped
SkipArenaNever(a, alloc_flags) == FALSE

\* the KMAP-only filter of the allocation loops: TRUE when arena a is skipped
SkipArena(a, alloc_flags) ==
    HasFlag(alloc_flags, PMM_ALLOC_FLAG_KMAP) /\ ~HasFlag(flags(a), PMM_ARENA_FLAG_KMAP)

\* (mutant) the new arena goes before the first arena of greater or equal
\* priority
InsertIndexBeforeEqual(list, prio) ==
    IF \E i \in 1..Len(list) : priority(list[i]) >= prio
    THEN CHOOSE i \in 1..Len(list) :
            /\ priority(list[i]) >= prio
            /\ \A j \in 1..(i - 1) : ~(priority(list[j]) >= prio)
    ELSE Len(list) + 1

\* where pmm_add_arena links the new arena: before the first arena of
\* strictly greater priority, else at the end
InsertIndex(list, prio) ==
    IF \E i \in 1..Len(list) : priority(list[i]) > prio
    THEN CHOOSE i \in 1..Len(list) :
            /\ priority(list[i]) > prio
            /\ \A j \in 1..(i - 1) : ~(priority(list[j]) > prio)
    ELSE Len(list) + 1

InsertAt(list, i, x) == SubSeq(list, 1, i - 1) \o <<x>> \o SubSeq(list, i, Len(list))

\* pmm_add_arena: the arena object and then its page array come from the
\* boot allocator at boot_ptr; result [m, boot_ptr, fatal]
pmm_add_arena(m, info, boot_ptr) ==
    IF info.base % PAGE_SIZE # 0 \/ info.size % PAGE_SIZE # 0 \/ ~(info.size > 0)
    THEN [m |-> m, boot_ptr |-> boot_ptr, fatal |-> TRUE]
    ELSE LET k == InsertIndex(m.arena_list, info.priority)
             linked == [m EXCEPT !.arena_list = InsertAt(m.arena_list, k, NewArena(info))]
             array == boot_ptr + SIZEOF_PMM_ARENA
         IN [m |-> BootAllocArray(linked, k, array),
             boot_ptr |-> array + (info.size \div PAGE_SIZE) * VM_PAGE_STRUCT_SIZE,
             fatal |-> FALSE]

\* pmm_add_arena up to done_add: the arena object comes from the boot
\* allocator at boot_ptr and is linked into the registry, its page array
\* not yet allocated
pmm_add_arena_link(m, info, boot_ptr) ==
    IF info.base % PAGE_SIZE # 0 \/ info.size % PAGE_SIZE # 0 \/ ~(info.size > 0)
    THEN [m |-> m, boot_ptr |-> boot_ptr, fatal |-> TRUE]
    ELSE [m |-> [m EXCEPT !.arena_list =
                    InsertAt(m.arena_list, InsertIndex(m.arena_list, info.priority),
                             NewArena(info))],
          boot_ptr |-> boot_ptr + SIZEOF_PMM_ARENA,
          fatal |-> FALSE]

\* (mutant) pmm_add_arena returns without the call of BootAllocArray
pmm_add_arena_no_array(m, k, boot_ptr) == [m |-> m, boot_ptr |-> boot_ptr]

\* pmm_add_arena from done_add on: arena->BootAllocArray() for the arena
\* linked at index k
pmm_add_arena_array(m, k, boot_ptr) ==
    [m |-> BootAllocArray(m, k, boot_ptr),
     boot_ptr |-> boot_ptr + (size(m.arena_list[k]) \div PAGE_SIZE) * VM_PAGE_STRUCT_SIZE]

\* the result of an operation that returned without touching anything
NoResult(m) ==
    [m |-> m, ret |-> 0, list |-> <<>>, pa |-> <<>>, fatal |-> FALSE, locked |-> FALSE]

RECURSIVE AllocPageWalk(_, _, _)
AllocPageWalk(m, k, alloc_flags) ==
    IF k > Len(m.arena_list) THEN [m |-> m, page |-> NULL, pa |-> <<>>]
    ELSE IF SkipArena(m.arena_list[k], alloc_flags) THEN AllocPageWalk(m, k + 1, alloc_flags)
    ELSE LET r == AllocPage(m, k)
         IN IF r.page # NULL THEN r ELSE AllocPageWalk(m, k + 1, alloc_flags)

\* (mutant) the arena loop leaves out the first arena of the registry
pmm_alloc_page_from_second(m, alloc_flags) ==
    LET r == AllocPageWalk(m, 2, alloc_flags)
    IN [NoResult(r.m) EXCEPT !.ret = r.page, !.pa = r.pa, !.locked = TRUE]

\* pmm_alloc_page(alloc_flags, pa): ret is the frame, NULL when none
pmm_alloc_page(m, alloc_flags) ==
    LET r == AllocPageWalk(m, 1, alloc_flags)
    IN [NoResult(r.m) EXCEPT !.ret = r.page, !.pa = r.pa, !.locked = TRUE]

RECURSIVE AllocPagesWalk(_, _, _, _)
AllocPagesWalk(m, k, count, alloc_flags) ==
    IF k > Len(m.arena_list) THEN [m |-> m, allocated |-> 0, list |-> <<>>]
    ELSE IF SkipArena(m.arena_list[k], alloc_flags)
         THEN AllocPagesWalk(m, k + 1, count, alloc_flags)
    ELSE LET r == AllocPages(m, k, count, <<>>)
         IN IF r.allocated > 0 THEN r ELSE AllocPagesWalk(m, k + 1, count, alloc_flags)

\* (mutant) the arena loop goes on into later arenas to make up a shortfall
RECURSIVE AllocPagesGreedy(_, _, _, _)
AllocPagesGreedy(m, k, count, alloc_flags) ==
    IF k > Len(m.arena_list) \/ count = 0 THEN [m |-> m, allocated |-> 0, list |-> <<>>]
    ELSE IF SkipArena(m.arena_list[k], alloc_flags)
         THEN AllocPagesGreedy(m, k + 1, count, alloc_flags)
    ELSE LET r == AllocPages(m, k, count, <<>>)
             rest == AllocPagesGreedy(r.m, k + 1, count - r.allocated, alloc_flags)
         IN [m |-> rest.m, allocated |-> r.allocated + rest.allocated,
             list |-> r.list \o rest.list]

pmm_alloc_pages_greedy(m, count, alloc_flags) ==
    IF count = 0 THEN NoResult(m)
    ELSE LET r == AllocPagesGreedy(m, 1, count, alloc_flags)
         IN [NoResult(r.m) EXCEPT !.ret = r.allocated, !.list = r.list, !.locked = TRUE]

\* (mutant) coming back with no frame is treated as a failed assertion
pmm_alloc_pages_assert_found(m, count, alloc_flags) ==
    IF count = 0 THEN NoResult(m)
    ELSE LET r == AllocPagesWalk(m, 1, count, alloc_flags)
         IN [NoResult(r.m) EXCEPT !.ret = r.allocated, !.list = r.list, !.locked = TRUE,
                                  !.fatal = (r.allocated = 0)]

\* pmm_alloc_pages(count, alloc_flags, list)
pmm_alloc_pages(m, count, alloc_flags) ==
    IF count = 0 THEN NoResult(m)
    ELSE LET r == AllocPagesWalk(m, 1, count, alloc_flags)
         IN [NoResult(r.m) EXCEPT !.ret = r.allocated, !.list = r.list, !.locked = TRUE]

\* the while loop of pmm_alloc_range inside arena k; w is
\* [m, address, allocated, list]
RECURSIVE RangeInArena(_, _, _, _)
RangeInArena(w, k, count, has_list) ==
    IF ~(w.allocated < count /\ address_in_arena(w.m.arena_list[k], w.address)) THEN w
    ELSE LET r == AllocSpecific(w.m, k, w.address)
         IN IF r.page = NULL THEN w
            ELSE RangeInArena([m |-> r.m, address |-> w.address + PAGE_SIZE,
                               allocated |-> w.allocated + 1,
                               list |-> IF has_list THEN Append(w.list, r.page) ELSE w.list],
                              k, count, has_list)

\* (mutant) the arena loop ends with the first arena that gave a page
RECURSIVE RangeWalkOneArena(_, _, _, _)
RangeWalkOneArena(w, k, count, has_list) ==
    IF k > Len(w.m.arena_list) THEN w
    ELSE LET w2 == RangeInArena(w, k, count, has_list)
         IN IF w2.allocated > 0 THEN w2 ELSE RangeWalkOneArena(w2, k + 1, count, has_list)

RECURSIVE RangeWalk(_, _, _, _)
RangeWalk(w, k, count, has_list) ==
    IF k > Len(w.m.arena_list) THEN w
    ELSE LET w2 == RangeInArena(w, k, count, has_list)
         IN IF w2.allocated = count THEN w2 ELSE RangeWalk(w2, k + 1, count, has_list)

\* (mutant) the arena loop starts over after each arena, so that a range
\* may run on into an arena that comes earlier in the registry
RECURSIVE RangeRewalk(_, _, _, _)
RangeRewalk(w, n, count, has_list) ==
    IF n = 0 THEN w
    ELSE RangeRewalk(RangeWalk(w, 1, count, has_list), n - 1, count, has_list)

pmm_alloc_range_rewalk(m, address, count, has_list) ==
    IF count = 0 THEN NoResult(m)
    ELSE LET w == RangeRewalk([m |-> m, address |-> ROUNDDOWN(address, PAGE_SIZE),
                               allocated |-> 0, list |-> <<>>],
                              Len(m.arena_list), count, has_list)
         IN [NoResult(w.m) EXCEPT !.ret = w.allocated, !.list = w.list, !.locked = TRUE]

\* pmm_alloc_range(address, count, list); has_list: list is not NULL
pmm_alloc_range(m, address, count, has_list) ==
    IF count = 0 THEN NoResult(m)
    ELSE LET w == RangeWalk([m |-> m, address |-> ROUNDDOWN(address, PAGE_SIZE),
                             allocated |-> 0, list |-> <<>>], 1, count, has_list)
         IN [NoResult(w.m) EXCEPT !.ret = w.allocated, !.list = w.list, !.locked = TRUE]

\* the arena loop of pmm_alloc_contiguous: count is overwritten by each
\* arena's answer before the next arena is asked
RECURSIVE ContiguousWalk(_, _, _, _, _, _, _)
ContiguousWalk(m, k, count, alloc_flags, alignment_log2, has_list, pa) ==
    IF k > Len(m.arena_list) THEN [m |-> m, count |-> 0, pa |-> pa, list |-> <<>>]
    ELSE IF SkipArena(m.arena_list[k], alloc_flags)
         THEN ContiguousWalk(m, k + 1, count, alloc_flags, alignment_log2, has_list, pa)
    ELSE LET r == AllocContiguous(m, k, count, alignment_log2, has_list)
             pa2 == IF r.pa # <<>> THEN r.pa ELSE pa
         IN IF r.count > 0 THEN r
            ELSE ContiguousWalk(r.m, k + 1, r.count, alloc_flags, alignment_log2,
                                has_list, pa2)

\* (mutant) the requested alignment is dropped: every arena is asked for a
\* page-aligned run
pmm_alloc_contiguous_page_aligned(m, count, alloc_flags, alignment_log2, has_list) ==
    IF count = 0 THEN NoResult(m)
    ELSE LET r == ContiguousWalk(m, 1, count, alloc_flags, PAGE_SIZE_SHIFT, has_list, <<>>)
         IN [NoResult(r.m) EXCEPT !.ret = r.count, !.list = r.list, !.pa = r.pa,
                                  !.locked = TRUE]

\* (mutant) without the early return for count == 0
pmm_alloc_contiguous_no_zero_check(m, count, alloc_flags, alignment_log2, has_list) ==
    LET r == ContiguousWalk(m, 1, count, alloc_flags,
                            Max(alignment_log2, PAGE_SIZE_SHIFT), has_list, <<>>)
    IN [NoResult(r.m) EXCEPT !.ret = r.count, !.list = r.list, !.pa = r.pa,
                             !.locked = TRUE]

\* pmm_alloc_contiguous(count, alloc_flags, alignment_log2, pa, list)
pmm_alloc_contiguous(m, count, alloc_flags, alignment_log2, has_list) ==
    IF count = 0 THEN NoResult(m)
    ELSE LET r == ContiguousWalk(m, 1, count, alloc_flags,
                                 Max(alignment_log2, PAGE_SIZE_SHIFT), has_list, <<>>)
         IN [NoResult(r.m) EXCEPT !.ret = r.count, !.list = r.list, !.pa = r.pa,
                                  !.locked = TRUE]

\* (mutant) only the first arena of the registry is asked to take the page
FreeScanFirstOnly(m, k, page) ==
    IF k > Len(m.arena_list) THEN [m |-> m, freed |-> FALSE]
    ELSE LET r == FreePage(m, k, page)
         IN [m |-> r.m, freed |-> r.status >= 0]

\* the arena loop of pmm_free for one page: [m, freed]
RECURSIVE FreeScan(_, _, _)
FreeScan(m, k, page) ==
    IF k > Len(m.arena_list) THEN [m |-> m, freed |-> FALSE]
    ELSE LET r == FreePage(m, k, page)
         IN IF r.status >= 0 THEN [m |-> r.m, freed |-> TRUE]
            ELSE FreeScan(m, k + 1, page)

\* (mutant) the list loop without DEBUG_ASSERT(!page_is_free(page))
RECURSIVE FreeWalkUnchecked(_, _, _, _)
FreeWalkUnchecked(m, list, garbage, count) ==
    IF list = <<>> THEN [m |-> m, count |-> count, fatal |-> FALSE]
    ELSE LET r == FreeScan(m, 1, Head(list))
         IN FreeWalkUnchecked(r.m, Tail(list), garbage, IF r.freed THEN count + 1 ELSE count)

\* the list loop of pmm_free: [m, count, fatal]
RECURSIVE FreeWalk(_, _, _, _)
FreeWalk(m, list, garbage, count) ==
    IF list = <<>> THEN [m |-> m, count |-> count, fatal |-> FALSE]
    ELSE IF page_is_free(m, Head(list), garbage)
         THEN [m |-> m, count |-> count, fatal |-> TRUE]
    ELSE LET r == FreeScan(m, 1, Head(list))
         IN FreeWalk(r.m, Tail(list), garbage, IF r.freed THEN count + 1 ELSE count)

\* pmm_free(list); garbage is what the state field of a listed pointer into
\* no page array reads.  A failed DEBUG_ASSERT leaves arena_lock held.
pmm_free(m, list, garbage) ==
    LET r == FreeWalk(m, list, garbage, 0)
    IN [NoResult(r.m) EXCEPT !.ret = IF r.fatal THEN 0 ELSE r.count,
                             !.fatal = r.fatal, !.locked = TRUE]

\* (mutant) the page never gets onto the list handed to pmm_free
pmm_free_page_empty_list(m, page, garbage) == pmm_free(m, <<>>, garbage)

\* pmm_free_page(page): the one-element list handed to pmm_free
pmm_free_page(m, page, garbage) == pmm_free(m, <<page>>, garbage)

\* vm_page_to_paddr(page): the address of the frame in the first arena whose
\* page array holds it, else -1
RECURSIVE PageToPaddrWalk(_, _, _)
PageToPaddrWalk(m, k, page) ==
    IF k > Len(m.arena_list) THEN PADDR_NONE
    ELSE IF page_belongs_to_arena(m.arena_list[k], page)
         THEN page_address_from_arena(m.arena_list[k], page)
         ELSE PageToPaddrWalk(m, k + 1, page)

vm_page_to_paddr(m, page) == PageToPaddrWalk(m, 1, page)

\* (mutant) the frame index is taken from the address itself, not from its
\* offset into the arena
RECURSIVE PaddrToPageWalkNoBase(_, _, _)
PaddrToPageWalkNoBase(m, k, addr) ==
    IF k > Len(m.arena_list) THEN NULL
    ELSE IF address_in_arena(m.arena_list[k], addr)
         THEN get_page(m.arena_list[k], addr \div PAGE_SIZE)
         ELSE PaddrToPageWalkNoBase(m, k + 1, addr)

\* paddr_to_vm_page(addr): the frame of the first arena that contains addr,
\* else NULL
RECURSIVE PaddrToPageWalk(_, _, _)
PaddrToPageWalk(m, k, addr) ==
    IF k > Len(m.arena_list) THEN NULL
    ELSE IF address_in_arena(m.arena_list[k], addr)
         THEN get_page(m.arena_list[k], (addr - base(m.arena_list[k])) \div PAGE_SIZE)
         ELSE PaddrToPageWalk(m, k + 1, addr)

paddr_to_vm_page(m, addr) == PaddrToPageWalk(m, 1, addr)

\* the kernel's view of physical memory: the regions flagged KMAP are mapped
\* at KERNEL_ASPACE_BASE; paddr_to_kvaddr fails (NULL) elsewhere
paddr_to_kvaddr(pa) ==
    IF \E info \in ArenaInfos :
          /\ HasFlag(info.flags, PMM_ARENA_FLAG_KMAP)
          /\ pa >= info.base /\ pa < info.base + info.size
    THEN KERNEL_ASPACE_BASE + pa
    ELSE NULL

\* vaddr_to_paddr: 0 for a pointer below the kernel's mapping
vaddr_to_paddr(ptr) ==
    IF ptr >= KERNEL_ASPACE_BASE THEN ptr - KERNEL_ASPACE_BASE ELSE 0

\* the tail of pmm_alloc_kpages and pmm_alloc_kpage: r is the allocation's
\* result with r.pa written; the lock has been released, so a failed
\* DEBUG_ASSERT(ptr) does not leave it held
KpagesResult(r, list) ==
    LET ptr == paddr_to_kvaddr(r.pa[1])
    IN IF ptr = NULL
       THEN [r EXCEPT !.ret = NULL, !.list = list, !.pa = <<>>, !.fatal = TRUE,
                      !.locked = FALSE]
       ELSE [r EXCEPT !.ret = ptr, !.list = list]

\* pmm_alloc_kpages(count, list, _pa): ret is the kernel pointer, NULL when
\* the allocation failed; _pa is written only on success
pmm_alloc_kpages(m, count, has_list) ==
    IF count = 1
    THEN LET r == pmm_alloc_page(m, PMM_ALLOC_FLAG_KMAP)
         IN IF r.ret = NULL THEN [r EXCEPT !.pa = <<>>]
            ELSE KpagesResult(r, IF has_list THEN <<r.ret>> ELSE <<>>)
    ELSE LET r == pmm_alloc_contiguous(m, count, PMM_ALLOC_FLAG_KMAP, PAGE_SIZE_SHIFT,
                                       has_list)
         IN IF r.ret = 0 THEN [r EXCEPT !.ret = NULL, !.pa = <<>>]
            ELSE KpagesResult(r, r.list)

\* pmm_alloc_kpage(_pa, _p): ret is the kernel pointer, list holds *_p
pmm_alloc_kpage(m) ==
    LET r == pmm_alloc_page(m, PMM_ALLOC_FLAG_KMAP)
    IN IF r.ret = NULL THEN [r EXCEPT !.pa = <<>>]
       ELSE KpagesResult(r, <<r.ret>>)

\* (mutant) the pointer is not advanced: every round translates the first page
RECURSIVE KpagesListStuck(_, _, _)
KpagesListStuck(m, ptr, count) ==
    IF count = 0 THEN <<>>
    ELSE LET p == paddr_to_vm_page(m, vaddr_to_paddr(ptr))
         IN (IF p # NULL THEN <<p>> ELSE <<>>) \o KpagesListStuck(m, ptr, count - 1)

\* the list pmm_free_kpages builds: the frame of each of the count pages
\* from ptr on that translates to one
RECURSIVE KpagesList(_, _, _)
KpagesList(m, ptr, count) ==
    IF count = 0 THEN <<>>
    ELSE LET p == paddr_to_vm_page(m, vaddr_to_paddr(ptr))
         IN (IF p # NULL THEN <<p>> ELSE <<>>) \o KpagesList(m, ptr + PAGE_SIZE, count - 1)

\* pmm_free_kpages(_ptr, count); the list field of the result is the list
\* that went to pmm_free
pmm_free_kpages(m, ptr, count) ==
    [pmm_free(m, KpagesList(m, ptr, count), "ALLOC") EXCEPT
        !.list = KpagesList(m, ptr, count)]

\* ------------------------------------------------------------ state

VARIABLES
    arena_list,      \* the registry, in iteration order
    page_state,      \* the state field of every frame of every page array
    boot_alloc_ptr,  \* the boot allocator's next free address
    arena_lock,      \* NULL, or the thread that holds the mutex
    fatal,           \* a DEBUG_ASSERT failed: the kernel has panicked
    pc,              \* per thread: its current call, where it stands, and what it returned
    held             \* per thread: the frames it was handed and has not freed

vars == <<arena_list, page_state, boot_alloc_ptr, arena_lock, fatal, pc, held>>

Threads == {1, 2}

Mem == [arena_list |-> arena_list, page_state |-> page_state]

EmptyMem == [arena_list |-> <<>>, page_state |-> <<>>]

\* ------------------------------------------------------------ inputs

AllocFlags == {0, PMM_ALLOC_FLAG_KMAP}

Counts == 0..MaxCount

\* physical addresses callers name: every page from below the lowest region
\* to above the highest, page-aligned and not
Addresses == {pg * PAGE_SIZE + off : pg \in 0..8, off \in {0, PAGE_SIZE - 1}}

Alignments == {0, PAGE_SIZE_SHIFT, PAGE_SIZE_SHIFT + 1}

\* the frames of the registered arenas
Frames(m) == DOMAIN m.page_state

\* pointers into no page array: the last arena object and the memory the
\* boot allocator has not handed out yet
StrayPointers(ptr) == {ptr - VM_PAGE_STRUCT_SIZE, ptr}

NoArgs ==
    [count |-> 0, alloc_flags |-> 0, address |-> 0, alignment_log2 |-> 0,
     has_list |-> TRUE, list |-> <<>>, garbage |-> "ALLOC", info |-> <<>>]

\* a thread outside every call
IdlePc ==
    [at |-> "idle", op |-> "none", args |-> NoArgs, pre |-> EmptyMem,
     ret |-> 0, list |-> <<>>, pa |-> <<>>, locked |-> FALSE, trip |-> <<>>]

Init ==
    /\ arena_list = <<>>
    /\ page_state = <<>>
    /\ boot_alloc_ptr = BOOT_ALLOC_START
    /\ arena_lock = NULL
    /\ fatal = FALSE
    /\ pc = [t \in Threads |-> IdlePc]
    /\ held = [t \in Threads |-> <<>>]

\* ------------------------------------------------------------ one caller

\* the effect of a call by thread t that ran from entry to its return (at
\* "returned": the caller has the results in hand) or to a failed assertion
\* (at "fatal", arena_lock still held if it was taken); pre is the memory
\* the call found; trip, for a free of the frames an allocation has just
\* handed out, is the memory that allocation had found (else empty)
CommitTrip(t, op, args, r, trip) ==
    /\ arena_list' = r.m.arena_list
    /\ page_state' = r.m.page_state
    /\ fatal' = r.fatal
    /\ arena_lock' = IF r.fatal /\ r.locked THEN t ELSE NULL
    /\ pc' = [pc EXCEPT ![t] =
                [at |-> IF r.fatal THEN "fatal" ELSE "returned", op |-> op, args |-> args,
                 pre |-> Mem, ret |-> r.ret, list |-> r.list, pa |-> r.pa,
                 locked |-> r.locked, trip |-> trip]]

Commit(t, op, args, r) == CommitTrip(t, op, args, r, <<>>)

\* thread t's call to op has returned
Returned(t, op) == pc[t].at = "returned" /\ pc[t].op = op

\* thread t may enter a call that runs undisturbed
CanRun(t) == ~fatal /\ arena_lock = NULL /\ pc[t].at = "idle"

Registered(name) == \E i \in 1..Len(arena_list) : arena_list[i].info.name = name

Do_pmm_add_arena ==
    /\ CanRun(1)
    /\ \E info \in ArenaInfos :
         /\ ~Registered(info.name)
         /\ LET r == pmm_add_arena(Mem, info, boot_alloc_ptr)
            IN /\ Commit(1, "pmm_add_arena", [NoArgs EXCEPT !.info = info],
                         [NoResult(r.m) EXCEPT !.fatal = r.fatal])
               /\ boot_alloc_ptr' = r.boot_ptr
    /\ UNCHANGED held

Do_pmm_alloc_page ==
    /\ CanRun(1)
    /\ \E f \in AllocFlags :
         Commit(1, "pmm_alloc_page", [NoArgs EXCEPT !.alloc_flags = f], pmm_alloc_page(Mem, f))
    /\ UNCHANGED <<boot_alloc_ptr, held>>

Do_pmm_alloc_pages ==
    /\ CanRun(1)
    /\ \E c \in Counts, f \in AllocFlags :
         Commit(1, "pmm_alloc_pages", [NoArgs EXCEPT !.count = c, !.alloc_flags = f],
                pmm_alloc_pages(Mem, c, f))
    /\ UNCHANGED <<boot_alloc_ptr, held>>

Do_pmm_alloc_range ==
    /\ CanRun(1)
    /\ \E a \in Addresses, c \in Counts, l \in BOOLEAN :
         Commit(1, "pmm_alloc_range", [NoArgs EXCEPT !.address = a, !.count = c, !.has_list = l],
                pmm_alloc_range(Mem, a, c, l))
    /\ UNCHANGED <<boot_alloc_ptr, held>>

Do_pmm_alloc_contiguous ==
    /\ CanRun(1)
    /\ \E c \in Counts, f \in AllocFlags, al \in Alignments, l \in BOOLEAN :
         Commit(1, "pmm_alloc_contiguous",
                [NoArgs EXCEPT !.count = c, !.alloc_flags = f, !.alignment_log2 = al,
                               !.has_list = l],
                pmm_alloc_contiguous(Mem, c, f, al, l))
    /\ UNCHANGED <<boot_alloc_ptr, held>>

\* what the state field of the stray pointers of list may read
Garbage(list) ==
    IF Range(list) \subseteq Frames(Mem) THEN {"ALLOC"} ELSE {"FREE", "ALLOC"}

Do_pmm_free ==
    /\ CanRun(1)
    /\ \E list \in DistinctSeqs(Frames(Mem) \cup StrayPointers(boot_alloc_ptr), MaxList) :
         \E g \in Garbage(list) :
            Commit(1, "pmm_free", [NoArgs EXCEPT !.list = list, !.garbage = g],
                   pmm_free(Mem, list, g))
    /\ UNCHANGED <<boot_alloc_ptr, held>>

Do_pmm_free_page ==
    /\ CanRun(1)
    /\ \E page \in Frames(Mem) \cup StrayPointers(boot_alloc_ptr) :
         \E g \in Garbage(<<page>>) :
            Commit(1, "pmm_free_page", [NoArgs EXCEPT !.list = <<page>>, !.garbage = g],
                   pmm_free_page(Mem, page, g))
    /\ UNCHANGED <<boot_alloc_ptr, held>>

AllocOps == {"pmm_alloc_page", "pmm_alloc_pages", "pmm_alloc_range", "pmm_alloc_contiguous"}

\* the frames the allocation that thread t has just returned from handed out
JustAllocated(t) ==
    IF pc[t].at = "returned" /\ pc[t].op \in AllocOps
    THEN {p \in Frames(pc[t].pre) : pc[t].pre.page_state[p] = "FREE" /\ page_state[p] = "ALLOC"}
    ELSE {}

\* the caller hands the frames it has just been given straight back, in any order
Do_pmm_free_returned ==
    /\ ~fatal /\ arena_lock = NULL
    /\ JustAllocated(1) # {}
    /\ \E list \in DistinctSeqs(JustAllocated(1), Cardinality(JustAllocated(1))) :
         /\ Len(list) = Cardinality(JustAllocated(1))
         /\ CommitTrip(1, "pmm_free", [NoArgs EXCEPT !.list = list],
                       pmm_free(Mem, list, "ALLOC"), <<pc[1].pre>>)
    /\ UNCHANGED <<boot_alloc_ptr, held>>

Do_pmm_free_page_returned ==
    /\ ~fatal /\ arena_lock = NULL
    /\ Cardinality(JustAllocated(1)) = 1
    /\ \E page \in JustAllocated(1) :
         CommitTrip(1, "pmm_free_page", [NoArgs EXCEPT !.list = <<page>>],
                    pmm_free_page(Mem, page, "ALLOC"), <<pc[1].pre>>)
    /\ UNCHANGED <<boot_alloc_ptr, held>>

Do_pmm_alloc_kpages ==
    /\ CanRun(1)
    /\ \E c \in Counts, l \in BOOLEAN :
         Commit(1, "pmm_alloc_kpages", [NoArgs EXCEPT !.count = c, !.has_list = l],
                pmm_alloc_kpages(Mem, c, l))
    /\ UNCHANGED <<boot_alloc_ptr, held>>

Do_pmm_alloc_kpage ==
    /\ CanRun(1)
    /\ Commit(1, "pmm_alloc_kpage", NoArgs, pmm_alloc_kpage(Mem))
    /\ UNCHANGED <<boot_alloc_ptr, held>>

\* the kernel pointers callers hand to pmm_free_kpages: pages the kernel maps
KernelPointers == {paddr_to_kvaddr(a) : a \in {b \in Addresses : b % PAGE_SIZE = 0}} \ {NULL}

Do_pmm_free_kpages ==
    /\ CanRun(1)
    /\ \E ptr \in KernelPointers, c \in Counts :
         Commit(1, "pmm_free_kpages", [NoArgs EXCEPT !.address = ptr, !.count = c],
                pmm_free_kpages(Mem, ptr, c))
    /\ UNCHANGED <<boot_alloc_ptr, held>>

\* the caller hands the pages pmm_alloc_kpages has just returned straight back
Do_pmm_free_kpages_returned ==
    /\ ~fatal /\ arena_lock = NULL
    /\ Returned(1, "pmm_alloc_kpages")
    /\ pc[1].ret # NULL
    /\ CommitTrip(1, "pmm_free_kpages",
                  [NoArgs EXCEPT !.address = pc[1].ret, !.count = pc[1].args.count],
                  pmm_free_kpages(Mem, pc[1].ret, pc[1].args.count), <<pc[1].pre>>)
    /\ UNCHANGED <<boot_alloc_ptr, held>>

\* the caller takes the results and goes on
Return ==
    /\ ~fatal
    /\ pc[1].at = "returned"
    /\ pc' = [pc EXCEPT ![1] = IdlePc]
    /\ UNCHANGED <<arena_list, page_state, boot_alloc_ptr, arena_lock, fatal, held>>

Next ==
    \/ Do_pmm_add_arena
    \/ Do_pmm_alloc_page
    \/ Do_pmm_alloc_pages
    \/ Do_pmm_alloc_range
    \/ Do_pmm_alloc_contiguous
    \/ Do_pmm_free
    \/ Do_pmm_free_page
    \/ Do_pmm_free_returned
    \/ Do_pmm_free_page_returned
    \/ Do_pmm_alloc_kpages
    \/ Do_pmm_alloc_kpage
    \/ Do_pmm_free_kpages
    \/ Do_pmm_free_kpages_returned
    \/ Return

Spec == Init /\ [][Next]_vars

\* ------------------------------------------------------------ translation

\* the frame pointers callers hand to vm_page_to_paddr
PagePointers == Frames(Mem) \cup StrayPointers(boot_alloc_ptr) \cup {NULL}

\* a translation reads the registry without arena_lock and writes nothing
Translated(m, ret, pa) == [NoResult(m) EXCEPT !.ret = ret, !.pa = pa]

Do_paddr_to_vm_page ==
    /\ CanRun(1)
    /\ \E addr \in Addresses :
         Commit(1, "paddr_to_vm_page", [NoArgs EXCEPT !.address = addr],
                Translated(Mem, paddr_to_vm_page(Mem, addr), <<>>))
    /\ UNCHANGED <<boot_alloc_ptr, held>>

Do_vm_page_to_paddr ==
    /\ CanRun(1)
    /\ \E page \in PagePointers :
         Commit(1, "vm_page_to_paddr", [NoArgs EXCEPT !.list = <<page>>],
                Translated(Mem, 0, <<vm_page_to_paddr(Mem, page)>>))
    /\ UNCHANGED <<boot_alloc_ptr, held>>

\* the caller translates the frame paddr_to_vm_page has just returned back
\* into an address; args keeps the address it started from
Do_vm_page_to_paddr_returned ==
    /\ ~fatal /\ arena_lock = NULL
    /\ Returned(1, "paddr_to_vm_page")
    /\ pc[1].trip = <<>>
    /\ CommitTrip(1, "vm_page_to_paddr", [pc[1].args EXCEPT !.list = <<pc[1].ret>>],
                  Translated(Mem, 0, <<vm_page_to_paddr(Mem, pc[1].ret)>>), <<pc[1].pre>>)
    /\ UNCHANGED <<boot_alloc_ptr, held>>

\* the caller translates the address vm_page_to_paddr has just returned back
\* into a frame; args keeps the frame it started from
Do_paddr_to_vm_page_returned ==
    /\ ~fatal /\ arena_lock = NULL
    /\ Returned(1, "vm_page_to_paddr")
    /\ pc[1].trip = <<>>
    /\ CommitTrip(1, "paddr_to_vm_page", [pc[1].args EXCEPT !.address = pc[1].pa[1]],
                  Translated(Mem, paddr_to_vm_page(Mem, pc[1].pa[1]), <<>>), <<pc[1].pre>>)
    /\ UNCHANGED <<boot_alloc_ptr, held>>

TranslateNext ==
    \/ Do_pmm_add_arena
    \/ Do_pmm_alloc_page
    \/ Do_paddr_to_vm_page
    \/ Do_vm_page_to_paddr
    \/ Do_vm_page_to_paddr_returned
    \/ Do_paddr_to_vm_page_returned
    \/ Return

TranslateSpec == Init /\ [][TranslateNext]_vars

\* ------------------------------------------------------------ threads

\* the registrations boot code may have made before the threads start
BootOrders ==
    { <<[name |-> "mid", base |-> 4 * PAGE_SIZE, size |-> 2 * PAGE_SIZE,
         flags |-> 0, priority |-> 1],
        [name |-> "hi", base |-> 7 * PAGE_SIZE, size |-> 1 * PAGE_SIZE,
         flags |-> PMM_ARENA_FLAG_KMAP, priority |-> 3]>>,
      <<[name |-> "hi", base |-> 7 * PAGE_SIZE, size |-> 1 * PAGE_SIZE,
         flags |-> PMM_ARENA_FLAG_KMAP, priority |-> 3],
        [name |-> "mid", base |-> 4 * PAGE_SIZE, size |-> 2 * PAGE_SIZE,
         flags |-> 0, priority |-> 3]>> }

\* pmm_add_arena for each info of infos in turn: [m, boot_ptr]
RECURSIVE Boot(_, _, _)
Boot(m, infos, boot_ptr) ==
    IF infos = <<>> THEN [m |-> m, boot_ptr |-> boot_ptr]
    ELSE LET r == pmm_add_arena(m, Head(infos), boot_ptr)
         IN Boot(r.m, Tail(infos), r.boot_ptr)

ConcInit ==
    /\ \E order \in BootOrders :
         LET b == Boot(EmptyMem, order, BOOT_ALLOC_START)
         IN /\ arena_list = b.m.arena_list
            /\ page_state = b.m.page_state
            /\ boot_alloc_ptr = b.boot_ptr
    /\ arena_lock = NULL
    /\ fatal = FALSE
    /\ pc = [t \in Threads |-> IdlePc]
    /\ held = [t \in Threads |-> <<>>]

\* the calls a thread makes: allocations, and frees of frames it holds
ThreadCalls(t) ==
    {[op |-> "pmm_alloc_page", args |-> [NoArgs EXCEPT !.alloc_flags = f]] : f \in AllocFlags}
    \cup {[op |-> "pmm_alloc_pages", args |-> [NoArgs EXCEPT !.count = c]] : c \in {0, 2}}
    \cup {[op |-> "pmm_alloc_range", args |-> [NoArgs EXCEPT !.address = a, !.count = 2]] :
            a \in {4 * PAGE_SIZE, 7 * PAGE_SIZE}}
    \cup {[op |-> "pmm_alloc_contiguous",
           args |-> [NoArgs EXCEPT !.count = 2, !.alignment_log2 = PAGE_SIZE_SHIFT]]}
    \cup {[op |-> "pmm_free", args |-> [NoArgs EXCEPT !.list = l]] :
            l \in DistinctSeqs(Range(held[t]), MaxList) \ {<<>>}}
    \cup {[op |-> "pmm_free_page", args |-> [NoArgs EXCEPT !.list = <<p>>]] :
            p \in Range(held[t])}
    \cup {[op |-> "pmm_alloc_kpages", args |-> [NoArgs EXCEPT !.count = c]] : c \in {0, 1}}
    \cup {[op |-> "pmm_alloc_kpage", args |-> NoArgs]}
    \cup {[op |-> "pmm_free_kpages",
           args |-> [NoArgs EXCEPT !.address = paddr_to_kvaddr(vm_page_to_paddr(Mem, p)),
                                   !.count = 1, !.list = <<p>>]] :
            p \in {q \in Range(held[t]) : paddr_to_kvaddr(vm_page_to_paddr(Mem, q)) # NULL}}

\* the call returns before it reaches AutoLock al(arena_lock); for
\* pmm_alloc_kpages the count of 0 goes to pmm_alloc_contiguous
ReturnsEarly(call) ==
    /\ call.op \in {"pmm_alloc_pages", "pmm_alloc_range", "pmm_alloc_contiguous",
                    "pmm_alloc_kpages"}
    /\ call.args.count = 0

\* what the body of the call does to memory m
Body(m, call) ==
    CASE call.op = "pmm_alloc_page" -> pmm_alloc_page(m, call.args.alloc_flags)
      [] call.op = "pmm_alloc_pages" ->
            pmm_alloc_pages(m, call.args.count, call.args.alloc_flags)
      [] call.op = "pmm_alloc_range" ->
            pmm_alloc_range(m, call.args.address, call.args.count, call.args.has_list)
      [] call.op = "pmm_alloc_contiguous" ->
            pmm_alloc_contiguous(m, call.args.count, call.args.alloc_flags,
                                 call.args.alignment_log2, call.args.has_list)
      [] call.op = "pmm_free" -> pmm_free(m, call.args.list, call.args.garbage)
      [] call.op = "pmm_free_page" -> pmm_free_page(m, call.args.list[1], call.args.garbage)
      [] call.op = "pmm_alloc_kpages" ->
            pmm_alloc_kpages(m, call.args.count, call.args.has_list)
      [] call.op = "pmm_alloc_kpage" -> pmm_alloc_kpage(m)
      [] call.op = "pmm_free_kpages" ->
            pmm_free_kpages(m, call.args.address, call.args.count)

\* the frames a returned call has handed to its caller
Got(call, r) ==
    IF call.op = "pmm_alloc_page" THEN (IF r.ret = NULL THEN <<>> ELSE <<r.ret>>)
    ELSE IF call.op = "pmm_free_kpages" THEN <<>>
    ELSE r.list

\* (mutant) the mutex lets a second thread in
MutexFreeAlways(lock) == TRUE

\* Mutex::Acquire goes through when no thread holds the mutex
MutexFree(lock) == lock = NULL

\* thread t enters a call; the frames of a list it frees are no longer its own
T_Call(t) ==
    /\ ~fatal
    /\ pc[t].at = "idle"
    /\ \E call \in ThreadCalls(t) :
         /\ pc' = [pc EXCEPT ![t] =
                     [IdlePc EXCEPT !.at = IF ReturnsEarly(call) THEN "returned" ELSE "lock",
                                    !.op = call.op, !.args = call.args]]
         /\ held' = [held EXCEPT ![t] = SeqWithout(held[t], Range(call.args.list))]
    /\ UNCHANGED <<arena_list, page_state, boot_alloc_ptr, arena_lock, fatal>>

\* AutoLock al(arena_lock): thread t blocks until the mutex is free
T_Acquire(t) ==
    /\ ~fatal
    /\ pc[t].at = "lock"
    /\ MutexFree(arena_lock)
    /\ arena_lock' = t
    /\ pc' = [pc EXCEPT ![t].at = "locked"]
    /\ UNCHANGED <<arena_list, page_state, boot_alloc_ptr, fatal, held>>

\* (mutant) a return path that leaves the mutex held
AutoUnlockNever(lock, failed) == lock

\* the AutoLock destructor releases the mutex when the call returns; a failed
\* assertion never gets there
AutoUnlock(lock, failed) == IF failed THEN lock ELSE NULL

\* the body of the call under the lock, to its return (the AutoLock
\* destructor releases the mutex) or to a failed assertion
T_Run(t) ==
    /\ ~fatal
    /\ pc[t].at = "locked"
    /\ LET r == Body(Mem, pc[t])
       IN /\ arena_list' = r.m.arena_list
          /\ page_state' = r.m.page_state
          /\ fatal' = r.fatal
          /\ arena_lock' = AutoUnlock(arena_lock, r.fatal)
          /\ pc' = [pc EXCEPT ![t] =
                      [pc[t] EXCEPT !.at = IF r.fatal THEN "fatal" ELSE "returned",
                                    !.ret = r.ret, !.list = r.list, !.pa = r.pa,
                                    !.locked = TRUE]]
          /\ held' = [held EXCEPT ![t] = held[t] \o Got(pc[t], r)]
    /\ UNCHANGED boot_alloc_ptr

\* the caller goes on
T_Return(t) ==
    /\ ~fatal
    /\ pc[t].at = "returned"
    /\ pc' = [pc EXCEPT ![t] = IdlePc]
    /\ UNCHANGED <<arena_list, page_state, boot_alloc_ptr, arena_lock, fatal, held>>

ConcNext ==
    \E t \in Threads : T_Call(t) \/ T_Acquire(t) \/ T_Run(t) \/ T_Return(t)

ConcSpec == ConcInit /\ [][ConcNext]_vars

\* the scheduler is preemptive and runs every runnable thread: a thread that
\* holds the lock goes on to the end of its call (weak fairness); a thread
\* blocked on the mutex is woken when the mutex is released, and is not
\* passed over for ever (strong fairness)
RunEnabled(t) == ~fatal /\ pc[t].at = "locked"

\* WF_vars(T_Run(t)), with ENABLED <<T_Run(t)>>_vars written out as the guard
\* of T_Run(t): its body always changes pc
WeakFairRun(t) == []<>~RunEnabled(t) \/ []<><<T_Run(t)>>_vars

Fairness ==
    \A t \in Threads : WeakFairRun(t) /\ SF_vars(T_Acquire(t))

FairSpec == ConcInit /\ [][ConcNext]_vars /\ Fairness

\* ------------------------------------------------------------ boot

\* thread 1 is the boot CPU: it registers arenas one pmm_add_arena call at a
\* time ("boot" between calls, "linked" inside a call between the linking and
\* BootAllocArray), then leaves the boot phase and starts to allocate and free
BootPc == [IdlePc EXCEPT !.at = "boot"]

BootInit ==
    /\ arena_list = <<>>
    /\ page_state = <<>>
    /\ boot_alloc_ptr = BOOT_ALLOC_START
    /\ arena_lock = NULL
    /\ fatal = FALSE
    /\ pc = [t \in Threads |-> IF t = 1 THEN BootPc ELSE IdlePc]
    /\ held = [t \in Threads |-> <<>>]

\* the regions the boot CPU registers, in any order and with any of their
\* priorities
BootInfos == {info \in ArenaInfos : info.name \in {"mid", "hi"}}

\* the registry index of the arena of region info
IndexOf(list, info) == CHOOSE k \in 1..Len(list) : list[k].info = info

\* pmm_add_arena, first half: no lock is taken
B_Link ==
    /\ ~fatal
    /\ pc[1].at = "boot"
    /\ \E info \in BootInfos :
         /\ ~Registered(info.name)
         /\ LET r == pmm_add_arena_link(Mem, info, boot_alloc_ptr)
            IN /\ arena_list' = r.m.arena_list
               /\ page_state' = r.m.page_state
               /\ boot_alloc_ptr' = r.boot_ptr
               /\ fatal' = r.fatal
               /\ pc' = [pc EXCEPT ![1] =
                           [BootPc EXCEPT !.at = IF r.fatal THEN "fatal" ELSE "linked",
                                          !.op = "pmm_add_arena", !.args.info = info]]
    /\ UNCHANGED <<arena_lock, held>>

\* pmm_add_arena, second half, and its return
B_Array ==
    /\ ~fatal
    /\ pc[1].at = "linked"
    /\ LET r == pmm_add_arena_array(Mem, IndexOf(arena_list, pc[1].args.info), boot_alloc_ptr)
       IN /\ arena_list' = r.m.arena_list
          /\ page_state' = r.m.page_state
          /\ boot_alloc_ptr' = r.boot_ptr
    /\ pc' = [pc EXCEPT ![1] = BootPc]
    /\ UNCHANGED <<arena_lock, fatal, held>>

\* the last registration has returned: allocation traffic may begin
B_Done ==
    /\ ~fatal
    /\ pc[1].at = "boot"
    /\ pc' = [pc EXCEPT ![1] = [IdlePc EXCEPT !.op = "booted"]]
    /\ UNCHANGED <<arena_list, page_state, boot_alloc_ptr, arena_lock, fatal, held>>

BootNext ==
    \/ B_Link
    \/ B_Array
    \/ B_Done
    \/ T_Call(1)
    \/ T_Acquire(1)
    \/ T_Run(1)
    \/ T_Return(1)

BootSpec == BootInit /\ [][BootNext]_vars

\* ------------------------------------------------------------ claims

\* the frames of arena a
ArenaFrames(a) == {get_page(a, i) : i \in 0..((size(a) \div PAGE_SIZE) - 1)}

\* the frames of arena a that are free / allocated in memory m
FreeSet(a) == Range(a.free_list)

AllocatedSet(m, a) == {p \in ArenaFrames(a) : m.page_state[p] = "ALLOC"}

\* C1: after any sequence of registrations, allocations and frees, every
\* registered arena has free_count + allocated_count = size / PAGE_SIZE, and
\* each of its frames is either on its free list (once) or allocated, never both
C1_ArenaAccounting ==
    \A k \in 1..Len(arena_list) :
        LET a == arena_list[k]
        IN /\ a.free_count + Cardinality(AllocatedSet(Mem, a)) = size(a) \div PAGE_SIZE
           /\ Len(a.free_list) = a.free_count
           /\ \A i, j \in 1..Len(a.free_list) : i # j => a.free_list[i] # a.free_list[j]
           /\ FreeSet(a) \subseteq ArenaFrames(a)
           /\ \A p \in ArenaFrames(a) : (p \in FreeSet(a)) # (p \in AllocatedSet(Mem, a))

\* C1 witness: a free has returned in a state where some arena has both
\* allocated and free frames
C1_Witness ==
    /\ Returned(1, "pmm_free")
    /\ pc[1].ret > 0
    /\ \E k \in 1..Len(arena_list) :
          /\ AllocatedSet(Mem, arena_list[k]) # {}
          /\ FreeSet(arena_list[k]) # {}

\* arena a may serve a request made with alloc_flags
Eligible(a, alloc_flags) ==
    alloc_flags = PMM_ALLOC_FLAG_KMAP => a.info.flags = PMM_ARENA_FLAG_KMAP

\* the frames that were free in memory m1 and are allocated in m2, and back
NewlyAllocated(m1, m2) ==
    {p \in Frames(m1) : m1.page_state[p] = "FREE" /\ m2.page_state[p] = "ALLOC"}

NewlyFreed(m1, m2) ==
    {p \in Frames(m1) : m1.page_state[p] = "ALLOC" /\ m2.page_state[p] = "FREE"}

IsDistinct(s) == \A i, j \in 1..Len(s) : i # j => s[i] # s[j]

\* between m1 and m2, arena k lost exactly the frames of S, all of them its
\* own and free before, and every other arena and frame is as it was
TookFrom(m1, m2, k, S) ==
    /\ Len(m2.arena_list) = Len(m1.arena_list)
    /\ \A j \in 1..Len(m1.arena_list) : j # k => m2.arena_list[j] = m1.arena_list[j]
    /\ S \subseteq FreeSet(m1.arena_list[k])
    /\ m2.arena_list[k].info = m1.arena_list[k].info
    /\ m2.arena_list[k].page_array = m1.arena_list[k].page_array
    /\ m2.arena_list[k].free_count = m1.arena_list[k].free_count - Cardinality(S)
    /\ FreeSet(m2.arena_list[k]) = FreeSet(m1.arena_list[k]) \ S
    /\ NewlyAllocated(m1, m2) = S
    /\ NewlyFreed(m1, m2) = {}

\* C3: pmm_alloc_pages with count > 0 takes min(count, free count) frames from
\* the first eligible arena in registry order that has a free frame, touches
\* no other arena, and returns 0 only when no eligible arena has a free frame
C3_AllocPagesOneArena ==
    \A t \in Threads :
        (Returned(t, "pmm_alloc_pages") /\ pc[t].args.count > 0) =>
            LET pre == pc[t].pre
                cand == {k \in 1..Len(pre.arena_list) :
                           /\ Eligible(pre.arena_list[k], pc[t].args.alloc_flags)
                           /\ pre.arena_list[k].free_count > 0}
            IN IF cand = {}
               THEN pc[t].ret = 0 /\ pc[t].list = <<>> /\ Mem = pre
               ELSE LET k == CHOOSE i \in cand : \A j \in cand : i <= j
                    IN /\ pc[t].ret = Min(pc[t].args.count, pre.arena_list[k].free_count)
                       /\ Len(pc[t].list) = pc[t].ret
                       /\ IsDistinct(pc[t].list)
                       /\ TookFrom(pre, Mem, k, Range(pc[t].list))

\* C3 witness: the first arena had 2 free frames and a later eligible arena
\* had free frames too; 3 were asked for and 2 returned
C3_Witness ==
    /\ Returned(1, "pmm_alloc_pages")
    /\ pc[1].args.count = 3
    /\ pc[1].ret = 2
    /\ Len(pc[1].pre.arena_list) >= 2
    /\ pc[1].pre.arena_list[1].free_count = 2
    /\ priority(pc[1].pre.arena_list[1]) < priority(pc[1].pre.arena_list[2])
    /\ Eligible(pc[1].pre.arena_list[2], pc[1].args.alloc_flags)
    /\ pc[1].pre.arena_list[2].free_count > 0
    /\ arena_list[2] = pc[1].pre.arena_list[2]

\* the registry indexes of the arenas of m that contain physical address addr
ArenasOf(m, addr) ==
    {k \in 1..Len(m.arena_list) :
        /\ addr >= m.arena_list[k].info.base
        /\ addr < m.arena_list[k].info.base + m.arena_list[k].info.size}

\* the frame of physical address addr (a page address inside arena k of m)
FrameAt(m, k, addr) ==
    m.arena_list[k].page_array
        + ((addr - m.arena_list[k].info.base) \div PAGE_SIZE) * VM_PAGE_STRUCT_SIZE

\* the physical address of frame p of memory m
AddressOf(m, p) ==
    LET k == CHOOSE i \in 1..Len(m.arena_list) : p \in ArenaFrames(m.arena_list[i])
    IN m.arena_list[k].info.base
         + ((p - m.arena_list[k].page_array) \div VM_PAGE_STRUCT_SIZE) * PAGE_SIZE

\* the page at addr is in an arena of m and is free there
PageFree(m, addr) ==
    \E k \in ArenasOf(m, addr) : m.page_state[FrameAt(m, k, addr)] = "FREE"

\* the page at addr is in an arena of m and is allocated
PageAllocated(m, addr) ==
    \E k \in ArenasOf(m, addr) : m.page_state[FrameAt(m, k, addr)] = "ALLOC"

\* C4 as stated: pmm_alloc_range(start, count, list) returns no frame for an
\* address outside [start, start + count*PAGE_SIZE); the frames returned are
\* the consecutive pages from start up to, and not including, the first page
\* that is already allocated (or is no page of any arena); the returned count
\* is the number of frames appended to the list
C4_RangeStopsAtFirstAllocated ==
    \A t \in Threads :
        (Returned(t, "pmm_alloc_range") /\ pc[t].args.count > 0) =>
            LET pre == pc[t].pre
                start == pc[t].args.address
                count == pc[t].args.count
                taken == NewlyAllocated(pre, Mem)
                firstGap ==
                    IF \E i \in 0..(count - 1) : ~PageFree(pre, start + i * PAGE_SIZE)
                    THEN CHOOSE i \in 0..(count - 1) :
                            /\ ~PageFree(pre, start + i * PAGE_SIZE)
                            /\ \A j \in 0..(i - 1) : PageFree(pre, start + j * PAGE_SIZE)
                    ELSE count
            IN /\ \A p \in taken :
                    AddressOf(pre, p) >= start /\ AddressOf(pre, p) < start + count * PAGE_SIZE
               /\ pc[t].ret = firstGap
               /\ Cardinality(taken) = firstGap
               /\ pc[t].args.has_list => Len(pc[t].list) = pc[t].ret

\* C4 amended: with s the start rounded down to a page boundary, the call
\* allocates exactly the pages s, s+PAGE_SIZE, ... s+(ret-1)*PAGE_SIZE, all
\* free before and all inside [s, s + count*PAGE_SIZE); it stops at the first
\* page of the range that is already allocated, lies in no arena, or lies in
\* an arena that comes before the previous page's arena in the registry; a
\* list, when one is passed, receives those ret frames in address order
C4_RangeAmended ==
    \A t \in Threads :
        (Returned(t, "pmm_alloc_range") /\ pc[t].args.count > 0) =>
            LET pre == pc[t].pre
                s == pc[t].args.address - (pc[t].args.address % PAGE_SIZE)
                count == pc[t].args.count
                ret == pc[t].ret
                taken == NewlyAllocated(pre, Mem)
                \* the walk cannot take page i of the range after page i-1
                Stops(i) ==
                    \/ ~PageFree(pre, s + i * PAGE_SIZE)
                    \/ /\ i > 0
                       /\ \E k \in ArenasOf(pre, s + i * PAGE_SIZE),
                             j \in ArenasOf(pre, s + (i - 1) * PAGE_SIZE) : k < j
            IN /\ ret \in 0..count
               /\ \A i \in 0..(ret - 1) : ~Stops(i)
               /\ ret < count => Stops(ret)
               /\ {AddressOf(pre, p) : p \in taken} = {s + i * PAGE_SIZE : i \in 0..(ret - 1)}
               /\ NewlyFreed(pre, Mem) = {}
               /\ \A k \in 1..Len(arena_list) :
                     TookFrom(pre, [pre EXCEPT !.arena_list[k] = arena_list[k],
                                               !.page_state =
                                                  [p \in Frames(pre) |->
                                                     IF p \in ArenaFrames(pre.arena_list[k])
                                                     THEN page_state[p] ELSE pre.page_state[p]]],
                              k, taken \cap ArenaFrames(pre.arena_list[k]))
               /\ pc[t].list = IF pc[t].args.has_list
                               THEN [i \in 1..ret |->
                                       FrameAt(pre, CHOOSE k \in ArenasOf(pre, s + (i - 1) * PAGE_SIZE) : TRUE,
                                               s + (i - 1) * PAGE_SIZE)]
                               ELSE <<>>

\* C4 witness: a range that starts off a page boundary, runs across an arena
\* boundary and stops short of count at a page that is already allocated
C4_Witness ==
    /\ Returned(1, "pmm_alloc_range")
    /\ pc[1].args.address % PAGE_SIZE # 0
    /\ pc[1].args.has_list
    /\ pc[1].ret = 2
    /\ pc[1].args.count = 3
    /\ \E k \in 1..Len(arena_list) :
          /\ Range(pc[1].list) \cap ArenaFrames(arena_list[k]) # {}
          /\ ~(Range(pc[1].list) \subseteq ArenaFrames(arena_list[k]))
    /\ PageAllocated(pc[1].pre, pc[1].args.address + 2 * PAGE_SIZE)

\* arena k of m holds count free frames at base b, b+PAGE_SIZE, ...
FreeRunAt(m, k, b, count) ==
    \A i \in 0..(count - 1) :
        /\ k \in ArenasOf(m, b + i * PAGE_SIZE)
        /\ m.page_state[FrameAt(m, k, b + i * PAGE_SIZE)] = "FREE"

\* the alignment pmm_alloc_contiguous works with
EffectiveAlignment(alignment_log2) ==
    IF alignment_log2 < PAGE_SIZE_SHIFT THEN PAGE_SIZE_SHIFT ELSE alignment_log2

\* C5: a successful pmm_alloc_contiguous returns count and allocates exactly
\* the count frames at base, base+PAGE_SIZE, ..., all of one arena, all free
\* before, base a multiple of 1 << max(alignment_log2, PAGE_SIZE_SHIFT); a
\* failed one returns 0 and leaves every frame and every free count as it was
C5_ContiguousRun ==
    \A t \in Threads :
        (Returned(t, "pmm_alloc_contiguous") /\ pc[t].args.count > 0) =>
            LET pre == pc[t].pre
                count == pc[t].args.count
            IN IF pc[t].ret = 0
               THEN Mem = pre /\ pc[t].list = <<>>
               ELSE /\ pc[t].ret = count
                    /\ Len(pc[t].pa) = 1
                    /\ pc[t].pa[1] % (2 ^ EffectiveAlignment(pc[t].args.alignment_log2)) = 0
                    /\ \E k \in 1..Len(pre.arena_list) :
                          /\ FreeRunAt(pre, k, pc[t].pa[1], count)
                          /\ TookFrom(pre, Mem, k,
                                      {FrameAt(pre, k, pc[t].pa[1] + i * PAGE_SIZE) :
                                          i \in 0..(count - 1)})
                          /\ pc[t].list =
                                IF pc[t].args.has_list
                                THEN [i \in 1..count |->
                                        FrameAt(pre, k, pc[t].pa[1] + (i - 1) * PAGE_SIZE)]
                                ELSE <<>>

\* C5 witness: a run of 2 frames aligned to 2 pages was found in an arena
\* whose base is not so aligned
C5_Witness ==
    /\ Returned(1, "pmm_alloc_contiguous")
    /\ pc[1].args.count = 2
    /\ pc[1].args.alignment_log2 = PAGE_SIZE_SHIFT + 1
    /\ pc[1].ret = 2
    /\ \E k \in 1..Len(arena_list) :
          /\ pc[1].pa[1] \in {a \in Addresses : k \in ArenasOf(Mem, a)}
          /\ arena_list[k].info.base % (2 * PAGE_SIZE) # 0

\* the first eligible arena of m, in registry order, with an aligned run of
\* count free frames; 0 if there is none
FirstArenaWithRun(m, count, alloc_flags, alignment_log2) ==
    LET has == {k \in 1..Len(m.arena_list) :
                  /\ Eligible(m.arena_list[k], alloc_flags)
                  /\ \E b \in Addresses :
                        /\ b % (2 ^ EffectiveAlignment(alignment_log2)) = 0
                        /\ FreeRunAt(m, k, b, count)}
    IN IF has = {} THEN 0 ELSE CHOOSE k \in has : \A j \in has : k <= j

\* C6: pmm_alloc_contiguous succeeds whenever some eligible arena holds an
\* aligned run of count free frames, and takes the run from the first such
\* arena in registry order
C6_ContiguousFirstArenaWithRun ==
    \A t \in Threads :
        (Returned(t, "pmm_alloc_contiguous") /\ pc[t].args.count > 0) =>
            LET pre == pc[t].pre
                k == FirstArenaWithRun(pre, pc[t].args.count, pc[t].args.alloc_flags,
                                       pc[t].args.alignment_log2)
            IN IF k = 0 THEN pc[t].ret = 0
               ELSE /\ pc[t].ret = pc[t].args.count
                    /\ NewlyAllocated(pre, Mem) \subseteq ArenaFrames(pre.arena_list[k])

\* thread t's call to one of ops has run: it returned or hit an assertion
Ended(t, ops) == pc[t].at \in {"returned", "fatal"} /\ pc[t].op \in ops

\* how often frame p occurs on the free lists of memory m
Occurrences(m, p) ==
    Cardinality({<<k, i>> \in (1..Len(m.arena_list)) \X (1..Cardinality(Frames(m))) :
                    /\ i <= Len(m.arena_list[k].free_list)
                    /\ m.arena_list[k].free_list[i] = p})

\* C7: pmm_free and pmm_free_page given a frame that is already free end in
\* the fatal state; the frame is on a free list once, as before, and no free
\* count has been raised for it
C7_DoubleFreeFatal ==
    \A t \in Threads :
        Ended(t, {"pmm_free", "pmm_free_page"}) =>
            LET pre == pc[t].pre
                list == pc[t].args.list
                again == {p \in Range(list) \cap Frames(pre) : pre.page_state[p] = "FREE"}
            IN again # {} =>
                  /\ pc[t].at = "fatal"
                  /\ fatal
                  /\ \A p \in again : Occurrences(Mem, p) = 1 /\ page_state[p] = "FREE"
                  /\ NewlyFreed(pre, Mem) \cap again = {}
                  /\ \A k \in 1..Len(arena_list) :
                        arena_list[k].free_count
                           = pre.arena_list[k].free_count
                               + Cardinality(NewlyFreed(pre, Mem)
                                               \cap ArenaFrames(pre.arena_list[k]))

\* C7 witness: a list whose second frame was already free: the first frame
\* was freed, then the assertion failed
C7_Witness ==
    /\ pc[1].at = "fatal"
    /\ pc[1].op = "pmm_free"
    /\ Len(pc[1].args.list) = 2
    /\ pc[1].args.list[1] \in NewlyFreed(pc[1].pre, Mem)
    /\ pc[1].args.list[2] \in Frames(pc[1].pre)
    /\ pc[1].pre.page_state[pc[1].args.list[2]] = "FREE"

\* C8: pmm_free given a frame that belongs to no registered arena ends in the
\* fatal state instead of returning a count
C8_ForeignFrameFatal ==
    \A t \in Threads :
        Ended(t, {"pmm_free"}) =>
            ((\E i \in 1..Len(pc[t].args.list) : pc[t].args.list[i] \notin Frames(pc[t].pre))
                => pc[t].at = "fatal")

\* C9: pmm_free of a list of n distinct allocated frames of registered arenas
\* returns n; every arena's free frames are those it had plus the listed
\* frames it owns, its free count has risen by their number, and no other
\* frame has changed state
C9_FreeWholeList ==
    \A t \in Threads :
        Ended(t, {"pmm_free"}) =>
            LET pre == pc[t].pre
                list == pc[t].args.list
            IN (\A i \in 1..Len(list) :
                    list[i] \in Frames(pre) /\ pre.page_state[list[i]] = "ALLOC") =>
                  /\ pc[t].at = "returned"
                  /\ pc[t].ret = Len(list)
                  /\ Len(arena_list) = Len(pre.arena_list)
                  /\ \A k \in 1..Len(arena_list) :
                        LET own == Range(list) \cap ArenaFrames(pre.arena_list[k])
                        IN /\ arena_list[k].info = pre.arena_list[k].info
                           /\ arena_list[k].page_array = pre.arena_list[k].page_array
                           /\ FreeSet(arena_list[k]) = FreeSet(pre.arena_list[k]) \cup own
                           /\ arena_list[k].free_count
                                 = pre.arena_list[k].free_count + Cardinality(own)
                  /\ NewlyFreed(pre, Mem) = Range(list)
                  /\ NewlyAllocated(pre, Mem) = {}

\* C9 witness: two frames of two arenas, the frame of the later arena of the
\* registry listed first
C9_Witness ==
    /\ Returned(1, "pmm_free")
    /\ pc[1].ret = 2
    /\ Len(arena_list) >= 2
    /\ pc[1].args.list[1] \in ArenaFrames(arena_list[2])
    /\ pc[1].args.list[2] \in ArenaFrames(arena_list[1])

\* C10: an allocation by any of the four disciplines followed by a free of
\* exactly the frames it handed out (pmm_free, or pmm_free_page for one
\* frame) restores every arena's free count and set of free frames
C10_RoundTrip ==
    \A t \in Threads :
        (Ended(t, {"pmm_free", "pmm_free_page"}) /\ pc[t].trip # <<>>) =>
            LET before == pc[t].trip[1]
            IN /\ pc[t].at = "returned"
               /\ pc[t].ret = Len(pc[t].args.list)
               /\ page_state = before.page_state
               /\ Len(arena_list) = Len(before.arena_list)
               /\ \A k \in 1..Len(arena_list) :
                     /\ arena_list[k].info = before.arena_list[k].info
                     /\ arena_list[k].page_array = before.arena_list[k].page_array
                     /\ arena_list[k].free_count = before.arena_list[k].free_count
                     /\ FreeSet(arena_list[k]) = FreeSet(before.arena_list[k])
                     /\ Len(arena_list[k].free_list) = Len(before.arena_list[k].free_list)

\* C10 witness: three frames of two arenas, handed out by pmm_alloc_range,
\* were freed again; the free lists hold the same frames in another order
C10_Witness ==
    /\ Returned(1, "pmm_free")
    /\ pc[1].trip # <<>>
    /\ pc[1].ret = 3
    /\ \E k \in 1..Len(arena_list) :
          /\ Range(pc[1].args.list) \cap ArenaFrames(arena_list[k]) # {}
          /\ ~(Range(pc[1].args.list) \subseteq ArenaFrames(arena_list[k]))
          /\ arena_list[k].free_list # pc[1].trip[1].arena_list[k].free_list

\* C10 witness, one frame: pmm_alloc_page then pmm_free_page
C10_WitnessPage ==
    /\ Returned(1, "pmm_free_page")
    /\ pc[1].trip # <<>>
    /\ pc[1].ret = 1

\* C2: with threads calling the allocation and free operations concurrently,
\* at most one thread is inside a region guarded by arena_lock, and no frame
\* is held twice: a frame handed out by an allocation is handed out by no
\* other allocation until it has been passed to pmm_free
C2_MutualExclusion ==
    /\ \A t, u \in Threads : (pc[t].at = "locked" /\ pc[u].at = "locked") => t = u
    /\ \A t \in Threads : pc[t].at = "locked" => arena_lock = t
    /\ \A t \in Threads : IsDistinct(held[t])
    /\ \A t, u \in Threads : t # u => Range(held[t]) \cap Range(held[u]) = {}
    /\ \A t \in Threads : \A p \in Range(held[t]) :
          /\ page_state[p] = "ALLOC"
          /\ \A k \in 1..Len(arena_list) : p \notin FreeSet(arena_list[k])

\* C2 witness: both threads hold frames; one is inside pmm_free under the
\* lock while the other waits for the lock in an allocation
C2_Witness ==
    /\ held[1] # <<>>
    /\ held[2] # <<>>
    /\ pc[1].at = "locked" /\ pc[1].op = "pmm_free"
    /\ pc[2].at = "lock" /\ pc[2].op = "pmm_alloc_pages"

\* the arenas of m that handed out a frame between m and m2
Served(m, m2) ==
    {k \in 1..Len(m.arena_list) : NewlyAllocated(m, m2) \cap ArenaFrames(m.arena_list[k]) # {}}

\* C11: the registry is sorted ascending by priority, arenas of equal
\* priority stand in the order of their registration (the boot allocator
\* hands out rising addresses, so an earlier registration has the lower page
\* array), and pmm_alloc_page and pmm_alloc_pages go through the arenas in
\* that order: no eligible arena of lower priority than the one that served
\* the call had a free frame
C11_RegistrySorted ==
    /\ \A i, j \in 1..Len(arena_list) :
          i < j =>
            /\ priority(arena_list[i]) <= priority(arena_list[j])
            /\ priority(arena_list[i]) = priority(arena_list[j])
                  => arena_list[i].page_array < arena_list[j].page_array
    /\ \A t \in Threads :
          (Returned(t, "pmm_alloc_page") \/ Returned(t, "pmm_alloc_pages")) =>
             \A k \in Served(pc[t].pre, Mem) :
                \A j \in 1..Len(pc[t].pre.arena_list) :
                   (/\ priority(pc[t].pre.arena_list[j]) < priority(pc[t].pre.arena_list[k])
                    /\ Eligible(pc[t].pre.arena_list[j], pc[t].args.alloc_flags))
                      => pc[t].pre.arena_list[j].free_count = 0

\* C11 witness: priorities 5, 1, 3 were registered in that order and the
\* registry reads 1, 3, 5
C11_Witness ==
    /\ Len(arena_list) = 3
    /\ <<priority(arena_list[1]), priority(arena_list[2]), priority(arena_list[3])>> = <<1, 3, 5>>
    /\ arena_list[3].page_array < arena_list[1].page_array
    /\ arena_list[1].page_array < arena_list[2].page_array

\* C12: pmm_alloc_page returns a frame of the first eligible arena in
\* registry order that has a free frame, with that frame's physical address
\* in pa, and takes nothing else; it returns NULL only when every eligible
\* arena is exhausted, and then memory is as it was and pa is not written
C12_AllocPageFirstEligible ==
    \A t \in Threads :
        Ended(t, {"pmm_alloc_page"}) =>
            LET pre == pc[t].pre
                cand == {k \in 1..Len(pre.arena_list) :
                           /\ Eligible(pre.arena_list[k], pc[t].args.alloc_flags)
                           /\ pre.arena_list[k].free_count > 0}
            IN /\ pc[t].at = "returned"
               /\ IF cand = {}
                  THEN pc[t].ret = NULL /\ pc[t].pa = <<>> /\ Mem = pre
                  ELSE LET k == CHOOSE i \in cand : \A j \in cand : i <= j
                       IN /\ pc[t].ret \in FreeSet(pre.arena_list[k])
                          /\ pc[t].pa = <<AddressOf(pre, pc[t].ret)>>
                          /\ TookFrom(pre, Mem, k, {pc[t].ret})

\* C12 witness: the first eligible arena was exhausted and the frame came
\* from a later one
C12_Witness ==
    /\ Returned(1, "pmm_alloc_page")
    /\ pc[1].ret # NULL
    /\ \E j, k \in 1..Len(arena_list) :
          /\ j < k
          /\ Eligible(pc[1].pre.arena_list[j], pc[1].args.alloc_flags)
          /\ pc[1].pre.arena_list[j].free_count = 0
          /\ pc[1].ret \in ArenaFrames(arena_list[k])

\* thread t's ended call is one that allocates from kernel-mapped arenas only
KmapOnly(t) ==
    \/ Ended(t, {"pmm_alloc_kpages", "pmm_alloc_kpage"})
    \/ /\ Ended(t, {"pmm_alloc_page", "pmm_alloc_pages", "pmm_alloc_contiguous"})
       /\ HasFlag(pc[t].args.alloc_flags, PMM_ALLOC_FLAG_KMAP)

\* C13: a call made with PMM_ALLOC_FLAG_KMAP (pmm_alloc_page, pmm_alloc_pages,
\* pmm_alloc_contiguous, and pmm_alloc_kpages and pmm_alloc_kpage, which pass
\* the flag) leaves every arena without PMM_ARENA_FLAG_KMAP as it was and
\* returns no frame and no address of it; without the flag every arena is
\* eligible: pmm_alloc_page and pmm_alloc_pages come back empty-handed only
\* when no arena at all has a free frame
C13_KmapFilter ==
    \A t \in Threads :
        /\ KmapOnly(t) =>
              /\ Len(arena_list) = Len(pc[t].pre.arena_list)
              /\ \A k \in 1..Len(pc[t].pre.arena_list) :
                    LET a == pc[t].pre.arena_list[k]
                    IN ~HasFlag(flags(a), PMM_ARENA_FLAG_KMAP) =>
                          /\ arena_list[k] = a
                          /\ \A p \in ArenaFrames(a) : page_state[p] = pc[t].pre.page_state[p]
                          /\ Range(pc[t].list) \cap ArenaFrames(a) = {}
                          /\ pc[t].op = "pmm_alloc_page" => pc[t].ret \notin ArenaFrames(a)
                          /\ \A i \in 1..Len(pc[t].pa) : ~address_in_arena(a, pc[t].pa[i])
                          /\ pc[t].op \in {"pmm_alloc_kpages", "pmm_alloc_kpage"} =>
                                ~address_in_arena(a, vaddr_to_paddr(pc[t].ret))
        /\ (/\ Ended(t, {"pmm_alloc_page", "pmm_alloc_pages"})
            /\ ~HasFlag(pc[t].args.alloc_flags, PMM_ALLOC_FLAG_KMAP)
            /\ pc[t].op = "pmm_alloc_pages" => pc[t].args.count > 0
            /\ pc[t].ret = 0) =>
              \A k \in 1..Len(pc[t].pre.arena_list) : pc[t].pre.arena_list[k].free_count = 0

\* C13 witness: pmm_alloc_kpages found every kernel-mapped arena exhausted
\* and came back with nothing while an arena without the flag had free frames
C13_Witness ==
    /\ Returned(1, "pmm_alloc_kpages")
    /\ pc[1].args.count = 1
    /\ pc[1].ret = NULL
    /\ \E j, k \in 1..Len(arena_list) :
          /\ HasFlag(flags(arena_list[j]), PMM_ARENA_FLAG_KMAP)
          /\ ~HasFlag(flags(arena_list[k]), PMM_ARENA_FLAG_KMAP)
          /\ k < j
          /\ arena_list[k].free_count > 0

\* C14: a page-aligned address inside a registered arena, translated to its
\* frame and back, comes back as itself, and so does a frame of a registered
\* arena translated to its address and back; an address in no arena
\* translates to NULL and a pointer that is no frame of any arena to -1; no
\* translation takes the lock or changes the registry or any frame
C14_TranslationRoundTrip ==
    \A t \in Threads :
        Ended(t, {"paddr_to_vm_page", "vm_page_to_paddr"}) =>
            LET x == pc[t].args.address
                f == pc[t].args.list[1]
            IN /\ pc[t].at = "returned"
               /\ Mem = pc[t].pre
               /\ ~pc[t].locked /\ arena_lock = NULL /\ ~fatal
               /\ pc[t].op = "paddr_to_vm_page" =>
                     /\ ArenasOf(Mem, x) = {} => pc[t].ret = NULL
                     /\ ArenasOf(Mem, x) # {} =>
                           \E k \in ArenasOf(Mem, x) : pc[t].ret = FrameAt(Mem, k, x)
                     /\ (pc[t].trip # <<>> /\ f \in Frames(Mem)) => pc[t].ret = f
               /\ pc[t].op = "vm_page_to_paddr" =>
                     /\ f \notin Frames(Mem) => pc[t].pa = <<PADDR_NONE>>
                     /\ f \in Frames(Mem) => pc[t].pa = <<AddressOf(Mem, f)>>
                     /\ (pc[t].trip # <<>> /\ ArenasOf(Mem, x) # {} /\ x % PAGE_SIZE = 0)
                           => pc[t].pa = <<x>>

\* C14 witness: the address of the second page of an arena that is not the
\* first of the registry went to its frame and back
C14_Witness ==
    /\ Returned(1, "vm_page_to_paddr")
    /\ pc[1].trip # <<>>
    /\ pc[1].pa = <<pc[1].args.address>>
    /\ \E k \in ArenasOf(Mem, pc[1].args.address) :
          /\ k > 1
          /\ pc[1].args.address = base(arena_list[k]) + PAGE_SIZE
          /\ arena_list[k].free_count < size(arena_list[k]) \div PAGE_SIZE

\* thread t's ended allocation found nothing it could hand out: no eligible
\* arena with a free frame (pmm_alloc_page, pmm_alloc_pages), no arena that
\* contains the requested address (pmm_alloc_range), no eligible arena with
\* an aligned free run (pmm_alloc_contiguous)
Exhausted(t) ==
    LET pre == pc[t].pre
        a == pc[t].args
    IN \/ /\ pc[t].op \in {"pmm_alloc_page", "pmm_alloc_pages"}
          /\ \A k \in 1..Len(pre.arena_list) :
                Eligible(pre.arena_list[k], a.alloc_flags) => pre.arena_list[k].free_count = 0
       \/ /\ pc[t].op = "pmm_alloc_range"
          /\ ArenasOf(pre, a.address) = {}
       \/ /\ pc[t].op = "pmm_alloc_contiguous"
          /\ a.count > 0
          /\ FirstArenaWithRun(pre, a.count, a.alloc_flags, a.alignment_log2) = 0

\* C15: no allocation ends in the fatal state; each returns with arena_lock
\* free, and one that found nothing to hand out returns NULL (pmm_alloc_page)
\* or 0 with no frame on the list and memory as it was, so that the calls
\* that follow find an ordinary state
C15_ExhaustionRecoverable ==
    \A t \in Threads :
        Ended(t, AllocOps) =>
            /\ pc[t].at = "returned"
            /\ ~fatal
            /\ arena_lock = NULL
            /\ Exhausted(t) => (pc[t].ret = 0 /\ pc[t].list = <<>> /\ Mem = pc[t].pre)

\* C15 witness: three arenas, every frame allocated, and pmm_alloc_pages
\* asked for two more
C15_Witness ==
    /\ Returned(1, "pmm_alloc_pages")
    /\ pc[1].args.count = 2
    /\ pc[1].ret = 0
    /\ Len(arena_list) = 3
    /\ \A k \in 1..Len(arena_list) : arena_list[k].free_count = 0
    /\ arena_lock = NULL

\* thread t's returned pmm_alloc_range call asked for a range of free pages
\* that starts on a page boundary in one arena and runs on into a second one
SpansTwoArenas(t) ==
    LET pre == pc[t].pre
        start == pc[t].args.address
        count == pc[t].args.count
    IN /\ Returned(t, "pmm_alloc_range")
       /\ count > 0
       /\ start % PAGE_SIZE = 0
       /\ \A i \in 0..(count - 1) : PageFree(pre, start + i * PAGE_SIZE)
       /\ Cardinality(UNION {ArenasOf(pre, start + i * PAGE_SIZE) : i \in 0..(count - 1)}) = 2

\* the arena of the first page of thread t's range, and of its last page
FirstArena(t) == CHOOSE k \in ArenasOf(pc[t].pre, pc[t].args.address) : TRUE

LastArena(t) ==
    CHOOSE k \in ArenasOf(pc[t].pre,
                          pc[t].args.address + (pc[t].args.count - 1) * PAGE_SIZE) : TRUE

\* the pages of thread t's range that lie in its first arena
PagesInFirstArena(t) ==
    {i \in 0..(pc[t].args.count - 1) :
        FirstArena(t) \in ArenasOf(pc[t].pre, pc[t].args.address + i * PAGE_SIZE)}

\* C16 as stated: a range of free pages that runs from one arena into a
\* physically adjacent one is allocated whole, whatever the priorities and
\* so the registry order of the two arenas
C16_RangeSpansAnyOrder ==
    \A t \in Threads :
        SpansTwoArenas(t) =>
            /\ pc[t].ret = pc[t].args.count
            /\ {AddressOf(pc[t].pre, p) : p \in NewlyAllocated(pc[t].pre, Mem)}
                  = {pc[t].args.address + i * PAGE_SIZE : i \in 0..(pc[t].args.count - 1)}

\* C16 amended: such a range is allocated whole when the arena it starts in
\* comes before the adjacent one in the registry; when it comes after, the
\* call allocates the pages of the range that lie in the first arena, returns
\* their number and takes nothing from the adjacent arena
C16_RangeSpansInRegistryOrder ==
    \A t \in Threads :
        SpansTwoArenas(t) =>
            LET pre == pc[t].pre
                start == pc[t].args.address
                taken == {AddressOf(pre, p) : p \in NewlyAllocated(pre, Mem)}
            IN IF FirstArena(t) < LastArena(t)
               THEN /\ pc[t].ret = pc[t].args.count
                    /\ taken = {start + i * PAGE_SIZE : i \in 0..(pc[t].args.count - 1)}
               ELSE /\ pc[t].ret = Cardinality(PagesInFirstArena(t))
                    /\ taken = {start + i * PAGE_SIZE : i \in PagesInFirstArena(t)}
                    /\ arena_list[LastArena(t)] = pre.arena_list[LastArena(t)]

\* C16 witness: three pages, the first two of an arena of priority 1 and
\* the third of the adjacent arena of priority 3, were allocated by one call
C16_Witness ==
    /\ SpansTwoArenas(1)
    /\ pc[1].args.count = 3
    /\ pc[1].ret = 3
    /\ Cardinality(PagesInFirstArena(1)) = 2
    /\ priority(arena_list[FirstArena(1)]) = 1
    /\ priority(arena_list[LastArena(1)]) = 3

\* C17: a successful pmm_alloc_kpages(count, list, pa), count >= 1, hands out
\* count physically contiguous pages of one kernel-mapped arena and returns
\* the kernel pointer of the first; pmm_free_kpages(ptr, count) on that pointer
\* rebuilds the list of exactly those frames, returns count, and every arena
\* has the free count and the free frames it had before the allocation
C17_KpagesRoundTrip ==
    \A t \in Threads :
        /\ (Returned(t, "pmm_alloc_kpages") /\ pc[t].ret # NULL) =>
              LET pre == pc[t].pre
                  count == pc[t].args.count
              IN /\ count >= 1
                 /\ Len(pc[t].pa) = 1
                 /\ pc[t].ret = paddr_to_kvaddr(pc[t].pa[1])
                 /\ \E k \in 1..Len(pre.arena_list) :
                       /\ HasFlag(flags(pre.arena_list[k]), PMM_ARENA_FLAG_KMAP)
                       /\ FreeRunAt(pre, k, pc[t].pa[1], count)
                       /\ TookFrom(pre, Mem, k,
                                   {FrameAt(pre, k, pc[t].pa[1] + i * PAGE_SIZE) :
                                       i \in 0..(count - 1)})
        /\ (Ended(t, {"pmm_free_kpages"}) /\ pc[t].trip # <<>>) =>
              LET before == pc[t].trip[1]
              IN /\ pc[t].at = "returned"
                 /\ pc[t].ret = pc[t].args.count
                 /\ Len(pc[t].list) = pc[t].args.count
                 /\ Range(pc[t].list) = NewlyAllocated(before, pc[t].pre)
                 /\ page_state = before.page_state
                 /\ Len(arena_list) = Len(before.arena_list)
                 /\ \A k \in 1..Len(arena_list) :
                       /\ arena_list[k].info = before.arena_list[k].info
                       /\ arena_list[k].page_array = before.arena_list[k].page_array
                       /\ arena_list[k].free_count = before.arena_list[k].free_count
                       /\ FreeSet(arena_list[k]) = FreeSet(before.arena_list[k])
                       /\ Len(arena_list[k].free_list) = Len(before.arena_list[k].free_list)

\* C17 witness: two pages of a kernel-mapped arena that is not the first of
\* the registry went out and came back; its free list holds them in another order
C17_Witness ==
    /\ Returned(1, "pmm_free_kpages")
    /\ pc[1].trip # <<>>
    /\ pc[1].ret = 2
    /\ \E k \in 2..Len(arena_list) :
          /\ Range(pc[1].list) \subseteq ArenaFrames(arena_list[k])
          /\ arena_list[k].free_list # pc[1].trip[1].arena_list[k].free_list

\* C18: pmm_alloc_pages, pmm_alloc_range and pmm_alloc_contiguous called with
\* count = 0 return 0 without taking arena_lock; nothing is put on the list,
\* the output address is not written, and the registry, every frame's state
\* and every free count are as they were
C18_ZeroCountNoOp ==
    \A t \in Threads :
        (/\ Ended(t, {"pmm_alloc_pages", "pmm_alloc_range", "pmm_alloc_contiguous"})
         /\ pc[t].args.count = 0) =>
            /\ pc[t].at = "returned"
            /\ pc[t].ret = 0
            /\ ~pc[t].locked
            /\ arena_lock = NULL
            /\ pc[t].list = <<>>
            /\ pc[t].pa = <<>>
            /\ Mem = pc[t].pre

\* C18 witness: pmm_alloc_contiguous(0, ..., &pa, list) returned in a state
\* where an arena it would not have skipped has free frames
C18_Witness ==
    /\ Returned(1, "pmm_alloc_contiguous")
    /\ pc[1].args.count = 0
    /\ pc[1].args.has_list
    /\ pc[1].ret = 0
    /\ \E k \in 1..Len(arena_list) :
          /\ ~SkipArena(arena_list[k], pc[1].args.alloc_flags)
          /\ arena_list[k].free_count > 0

\* C19: no thread asks for arena_lock while it holds it, a thread that has
\* returned from a call (or is outside every call) does not hold it, and
\* under fair scheduling every call that has got past its entry returns,
\* unless an assertion fails in the meantime
C19_NoDeadlock ==
    /\ [](\A t \in Threads :
            /\ pc[t].at = "lock" => arena_lock # t
            /\ pc[t].at \in {"idle", "returned"} => arena_lock # t)
    /\ \A t \in Threads :
          (pc[t].at \in {"lock", "locked"}) ~> (pc[t].at = "returned" \/ fatal)

\* C19 witness: a thread waits in the wrapper pmm_free_kpages for the lock
\* that the other thread holds inside pmm_alloc_kpages
C19_Witness ==
    /\ pc[1].at = "lock" /\ pc[1].op = "pmm_free_kpages"
    /\ pc[2].at = "locked" /\ pc[2].op = "pmm_alloc_kpages"
    /\ arena_lock = 2

\* arena a has its frame array, every frame in one of the two states
Initialised(a) ==
    /\ a.page_array # NULL
    /\ ArenaFrames(a) \subseteq DOMAIN page_state
    /\ a.free_count + Cardinality(AllocatedSet(Mem, a)) = size(a) \div PAGE_SIZE

\* arena a is as BootAllocArray leaves it: every frame free and on the free
\* list in ascending order, the free count the number of its frames
FullyFree(a) ==
    /\ Initialised(a)
    /\ a.free_count = size(a) \div PAGE_SIZE
    /\ a.free_list = [i \in 1..(size(a) \div PAGE_SIZE) |-> get_page(a, i - 1)]
    /\ \A p \in ArenaFrames(a) : page_state[p] = "FREE"

\* C20: pmm_add_arena never takes arena_lock, and the arena is linked into
\* the registry before it has its frame array; with every registration
\* completed before the first allocation or free, the first call finds
\* every arena with all frames free and free count = size / PAGE_SIZE, and
\* no call ever runs over an arena without its frame array
C20_BootPhaseRegistration ==
    /\ pc[1].at \in {"boot", "linked"} => arena_lock = NULL
    /\ pc[1].at = "linked" =>
          /\ Registered(pc[1].args.info.name)
          /\ arena_list[IndexOf(arena_list, pc[1].args.info)].page_array = NULL
          /\ \A k \in 1..Len(arena_list) :
                k # IndexOf(arena_list, pc[1].args.info) => FullyFree(arena_list[k])
    /\ (pc[1].at = "boot" \/ (pc[1].at = "idle" /\ pc[1].op = "booted")) =>
          \A k \in 1..Len(arena_list) : FullyFree(arena_list[k])
    /\ pc[1].at \in {"idle", "lock", "locked", "returned", "fatal"} =>
          \A k \in 1..Len(arena_list) : Initialised(arena_list[k])

\* C20 witness: two arenas were registered, the second of them linked in
\* front of the first, and the first allocation holds the lock
C20_Witness ==
    /\ pc[1].at = "locked"
    /\ pc[1].op = "pmm_alloc_pages"
    /\ Len(arena_list) = 2
    /\ arena_list[1].page_array > arena_list[2].page_array
    /\ \A k \in 1..2 : FullyFree(arena_list[k])

====
